---- MODULE Spec2Model ----
(***************************************************************************)
(* Cart & checkout consistency core of store-nextjs: cart pricing, the     *)
(* cart server actions, order creation, Stripe payment-intent              *)
(* reconciliation and the Stripe webhook.                                  *)
(*                                                                         *)
(* Money is held in units of 1/10000 of a currency unit, so that the       *)
(* product 0.21 * itemsPrice is exact before round2 is applied; a value    *)
(* written to a Decimal(12,2) column or rendered by toFixed(2) is a        *)
(* whole number of cents.                                                  *)
(***************************************************************************)
EXTENDS Integers, Sequences, FiniteSets, TLC

(***************************************************************************)
(* Bounds of the model.                                                    *)
(***************************************************************************)
MaxQty == 2
MaxStock == 2
MaxPriceLines == 2
MaxPriceQty == 3

Products == {"p1", "p2"}
NoSuchProduct == "px"
ProductIds == Products \cup {NoSuchProduct}
Null == "null"

\* Catalogue price of each product, in cents (the price a caller sends along).
PriceOf(p) == IF p = "p1" THEN 2500 ELSE 5050

\* Prices, in cents, the pricing check draws from.
PriceInputs == {1050, 2500, 5000, 9999}

(***************************************************************************)
(* Money arithmetic.                                                       *)
(***************************************************************************)
Scale == 100 * 100
CentUnits == 10 * 10

\* Number("25.00"): a price in cents as a number.
NumberOfCents(c) == c * CentUnits

\* round2: half-up to two decimals.
Round2(x) == ((x + 50) \div CentUnits) * CentUnits

\* Number.prototype.toFixed(2): the decimal text, as integer part and two
\* fractional digits.
ToFixed2(x) ==
  LET r == (x + 50) \div CentUnits
  IN  [int |-> r \div 100, frac |-> r % 100]

\* The Decimal column value (in cents) of a two-digit decimal text.
DecimalOf(s) == s.int * 100 + s.frac

RECURSIVE SumItems(_)
SumItems(items) ==
  IF items = << >> THEN 0
  ELSE SumItems(Tail(items)) + NumberOfCents(Head(items).price) * Head(items).qty

FreeShippingOver == 100
ShippingFee == 10
TaxPercent == 21

\* A mutation of calcPrice: free shipping from the threshold on, not above it.
CalcPriceThresholdInclusive(items) ==
  LET itemsPrice == Round2(SumItems(items))
      shippingPrice == Round2(IF itemsPrice >= FreeShippingOver * Scale THEN 0 ELSE ShippingFee * Scale)
      taxPrice == Round2((TaxPercent * itemsPrice) \div 100)
      totalPrice == Round2(itemsPrice + shippingPrice + taxPrice)
  IN  [itemsPrice |-> ToFixed2(itemsPrice), shippingPrice |-> ToFixed2(shippingPrice),
       taxPrice |-> ToFixed2(taxPrice), totalPrice |-> ToFixed2(totalPrice)]

\* calcPrice: the four totals of an item list, as two-decimal texts.
CalcPrice(items) ==
  LET itemsPrice == Round2(SumItems(items))
      shippingPrice == Round2(IF itemsPrice > FreeShippingOver * Scale THEN 0 ELSE ShippingFee * Scale)
      taxPrice == Round2((TaxPercent * itemsPrice) \div 100)
      totalPrice == Round2(itemsPrice + shippingPrice + taxPrice)
  IN  [itemsPrice |-> ToFixed2(itemsPrice), shippingPrice |-> ToFixed2(shippingPrice),
       taxPrice |-> ToFixed2(taxPrice), totalPrice |-> ToFixed2(totalPrice)]

\* The totals as the Decimal columns of a cart row hold them (cents).
TotalsOf(items) ==
  LET t == CalcPrice(items)
  IN  [itemsPrice |-> DecimalOf(t.itemsPrice), shippingPrice |-> DecimalOf(t.shippingPrice),
       taxPrice |-> DecimalOf(t.taxPrice), totalPrice |-> DecimalOf(t.totalPrice)]

VARIABLES
  priceIn,    \* the item list handed to calcPrice
  priceOut,   \* << >>, or <<the totals calcPrice returned>>
  stock,      \* Product.stock of each product
  carts,      \* the Cart table, in insertion order (a row's index is its id)
  session,    \* the browser's session: its user id (if signed in) and cookie
  req,        \* the server-action invocations in flight
  user,       \* the signed-in user's row: address and payment method
  orders,     \* the Order table, in insertion order (a row's index is its id)
  orderItems, \* the OrderItem table, in insertion order
  intents,    \* the provider's payment intents (an intent's index is its id)
  cache,      \* paymentIntentCache of each server process, by order id
  timers,     \* the pending setTimeout callbacks that delete a cache entry, each
              \* with the call that armed it
  calls,      \* the order-page loads and their getOrCreatePaymentIntent calls
  now,        \* the clock, in webhook deliveries
  hook,       \* the last webhook request and its response
  login,      \* the sign-in in progress (the jwt callback) and its outcome
  redisUrl,   \* whether process.env.REDIS_URL is set
  redisCache, \* the Map of MemoryRedisClient: a key's value and expiry
  tokenCache, \* the LRUCache of each rate limiter, least recently used first
  clock,      \* Date.now(), in minutes
  checks      \* every checkRateLimit call so far and what it reported

priceVars == <<priceIn, priceOut>>
cartVars == <<stock, carts, session, req>>
orderVars == <<user, orders, orderItems>>
payVars == <<intents, cache, timers, calls, now, hook>>
authVars == <<login>>
limitVars == <<redisUrl, redisCache, tokenCache, clock, checks>>
vars == <<priceIn, priceOut, stock, carts, session, req, user, orders, orderItems,
          intents, cache, timers, calls, now, hook, login,
          redisUrl, redisCache, tokenCache, clock, checks>>

(***************************************************************************)
(* Pricing on its own: calcPrice applied to drawn item lists.              *)
(***************************************************************************)
PriceLine == [price : PriceInputs, qty : 1..MaxPriceQty]

RECURSIVE SeqsUpTo(_, _)
SeqsUpTo(S, n) ==
  IF n = 0 THEN {<< >>}
  ELSE LET shorter == SeqsUpTo(S, n - 1)
       IN  shorter \cup {Append(s, x) : s \in {t \in shorter : Len(t) = n - 1}, x \in S}

\* One evaluation of calcPrice on the drawn item list.
ApplyCalcPrice ==
  /\ priceOut = << >>
  /\ priceOut' = <<CalcPrice(priceIn)>>
  /\ UNCHANGED priceIn
  /\ UNCHANGED <<authVars, limitVars>>
  /\ UNCHANGED cartVars
  /\ UNCHANGED orderVars
  /\ UNCHANGED payVars

(***************************************************************************)
(* The cart actions (lib/actions/cart.actions.ts).                         *)
(***************************************************************************)
Reqs == {"r1", "r2"}

\* Who calls: the session's user id (if signed in) and the sessionCartId cookie.
Anonymous == [userId |-> Null, sessionCartId |-> "s1"]
SignedIn == [userId |-> "u1", sessionCartId |-> "s1"]
NoCookie == [userId |-> Null, sessionCartId |-> Null]

\* The identities a request may arrive with: the browser's session, or a
\* request that carries no sessionCartId cookie.
Identities == {session, NoCookie}

NoItem == [productId |-> Null, price |-> 0, qty |-> 0]

NoTotals == [itemsPrice |-> 0, shippingPrice |-> 0, taxPrice |-> 0, totalPrice |-> 0]

IdleReq ==
  [op |-> "idle", pc |-> "idle", ident |-> [userId |-> Null, sessionCartId |-> Null],
   item |-> NoItem, cartId |-> 0, read |-> << >>, items |-> << >>, stockRead |-> 0,
   path |-> Null, totals |-> NoTotals, txOrder |-> << >>, result |-> Null]

\* An invocation that has its return value.
Done(op, result) == [IdleReq EXCEPT !.op = op, !.pc = "done", !.result = result]

\* prisma.cart.findFirst({ where }): the first row matching, 0 when none does.
FindFirstCart(ident) ==
  LET match(i) == IF ident.userId # Null
                  THEN carts[i].userId = ident.userId
                  ELSE carts[i].sessionCartId = ident.sessionCartId
      hits == {i \in 1..Len(carts) : match(i)}
  IN  IF hits = {} THEN 0 ELSE CHOOSE i \in hits : \A j \in hits : i <= j

\* items.find((x) => x.productId === productId): its index, 0 when absent.
FindItem(items, productId) ==
  LET hits == {i \in 1..Len(items) : items[i].productId = productId}
  IN  IF hits = {} THEN 0 ELSE CHOOSE i \in hits : \A j \in hits : i <= j

\* items.filter((x) => x.productId !== productId)
RECURSIVE FilterOut(_, _)
FilterOut(items, productId) ==
  IF items = << >> THEN << >>
  ELSE IF Head(items).productId = productId
       THEN FilterOut(Tail(items), productId)
       ELSE <<Head(items)>> \o FilterOut(Tail(items), productId)

\* A Cart row holding an item list together with the totals computed from it.
CartRow(userId, sessionCartId, items) ==
  LET t == TotalsOf(items)
  IN  [userId |-> userId, sessionCartId |-> sessionCartId, items |-> items,
       itemsPrice |-> t.itemsPrice, shippingPrice |-> t.shippingPrice,
       taxPrice |-> t.taxPrice, totalPrice |-> t.totalPrice]

\* A row of the Cart table that has been deleted (ids are positions, so the
\* position stays); it matches no query and cannot be updated.
Deleted == "deleted"
DeletedCart ==
  [userId |-> Deleted, sessionCartId |-> Deleted, items |-> << >>,
   itemsPrice |-> 0, shippingPrice |-> 0, taxPrice |-> 0, totalPrice |-> 0]
IsStored(row) == row.sessionCartId # Deleted

\* A mutation of the cart update: the item list is written without its totals.
UpdateCartRowItemsOnly(row, items) == [row EXCEPT !.items = items]

\* prisma.cart.update({ where: { id }, data: { items, ...calcPrice(items) } })
UpdateCartRow(row, items) == CartRow(row.userId, row.sessionCartId, items)

\* A mutation of the catch: the error leaves the action.
Rethrown(message) == "thrown"

\* catch (error) { return { success: false, message: formatError(error) } }:
\* the failure a cart action returns for the error thrown in its try block.
Caught(message) == message

\* A cart action that wrote returns { success: true, message }.
Returned(r) ==
  [Done(r.op, "success") EXCEPT !.path = r.path, !.item = r.item, !.cartId = r.cartId]

\* A mutation of the increment: the line grows by the quantity sent, not by 1.
AddDecideBySentQty(cartId, items, item, stockRead) ==
  IF cartId = 0
  THEN [ok |-> TRUE, path |-> "create", items |-> <<item>>]
  ELSE LET k == FindItem(items, item.productId)
       IN  IF k # 0
           THEN IF stockRead < items[k].qty + 1
                THEN [ok |-> FALSE, path |-> "increment", items |-> items]
                ELSE [ok |-> TRUE, path |-> "increment",
                      items |-> [items EXCEPT ![k].qty = items[k].qty + item.qty]]
           ELSE IF stockRead < 1
                THEN [ok |-> FALSE, path |-> "append", items |-> items]
                ELSE [ok |-> TRUE, path |-> "append", items |-> Append(items, item)]

\* Lines 50-88 of addItemToCart: what to write, given the cart read (cartId 0:
\* none), its items, the validated item and the product's stock as read.
AddDecide(cartId, items, item, stockRead) ==
  IF cartId = 0
  THEN [ok |-> TRUE, path |-> "create", items |-> <<item>>]
  ELSE LET k == FindItem(items, item.productId)
       IN  IF k # 0
           THEN IF stockRead < items[k].qty + 1
                THEN [ok |-> FALSE, path |-> "increment", items |-> items]
                ELSE [ok |-> TRUE, path |-> "increment",
                      items |-> [items EXCEPT ![k].qty = items[k].qty + 1]]
           ELSE IF stockRead < 1
                THEN [ok |-> FALSE, path |-> "append", items |-> items]
                ELSE [ok |-> TRUE, path |-> "append", items |-> Append(items, item)]

\* A mutation of the removal: the whole line goes, whatever its quantity.
RemoveDecideWholeLine(items, k) == FilterOut(items, items[k].productId)

\* A mutation of the removal: the line is decremented whatever its quantity.
RemoveDecideAlwaysDecrement(items, k) == [items EXCEPT ![k].qty = items[k].qty - 1]

\* Lines 157-168 of removeItemfromCart: the item list without one unit of line k.
RemoveDecide(items, k) ==
  IF items[k].qty = 1
  THEN FilterOut(items, items[k].productId)
  ELSE [items EXCEPT ![k].qty = items[k].qty - 1]

\* The quantities a caller may send in item.qty: any, or the single unit the
\* storefront's add button sends.
AnyQty == 1..MaxQty
OneUnit == {1}

\* addItemToCart up to its write (lines 28-88): cookie, session, getMyCart(),
\* the product read, and the decision what to write.  The two reads are one
\* step: Product rows do not change here, so reading the product later than
\* the cart reads the same stock.
AddRead(p, qtys) ==
  /\ req[p].op = "idle"
  /\ \E ident \in Identities, pid \in ProductIds, qty \in qtys :
       LET item == [productId |-> pid, price |-> PriceOf(pid), qty |-> qty]
           id == FindFirstCart(ident)
           items == IF id = 0 THEN << >> ELSE carts[id].items
           fail(m) == req' = [req EXCEPT ![p] = Done("add", Caught(m))]
       IN  IF ident.sessionCartId = Null THEN fail("Cart Session not found")
           ELSE IF pid \notin Products THEN fail("Product not found")
           ELSE LET d == AddDecide(id, items, item, stock[pid])
                IN  IF ~d.ok THEN fail("Not enough stock")
                    ELSE req' = [req EXCEPT ![p] =
                                  [IdleReq EXCEPT !.op = "add", !.pc = "write",
                                     !.ident = ident, !.item = item, !.cartId = id,
                                     !.read = items,
                                     !.items = d.items, !.stockRead = stock[pid],
                                     !.path = d.path]]
  /\ UNCHANGED <<stock, carts, session>>
  /\ UNCHANGED <<priceVars, authVars, limitVars>>
  /\ UNCHANGED orderVars
  /\ UNCHANGED payVars

\* addItemToCart's one write: prisma.cart.create or prisma.cart.update.
AddWrite(p) ==
  /\ req[p].op = "add" /\ req[p].pc = "write"
  /\ IF req[p].path = "create" THEN TRUE ELSE IsStored(carts[req[p].cartId])
  /\ LET r == req[p]
     IN  carts' = IF r.path = "create"
                  THEN Append(carts, CartRow(r.ident.userId, r.ident.sessionCartId, r.items))
                  ELSE [carts EXCEPT ![r.cartId] = UpdateCartRow(carts[r.cartId], r.items)]
  /\ req' = [req EXCEPT ![p] = Returned(req[p])]
  /\ UNCHANGED <<stock, session>>
  /\ UNCHANGED <<priceVars, authVars, limitVars>>
  /\ UNCHANGED orderVars
  /\ UNCHANGED payVars

\* removeItemfromCart up to the decision what to write.
RemGetCart(p) ==
  /\ req[p].op = "idle"
  /\ \E ident \in Identities, pid \in ProductIds :
       LET id == FindFirstCart(ident)
           k == IF id = 0 THEN 0 ELSE FindItem(carts[id].items, pid)
           fail(m) == req' = [req EXCEPT ![p] = Done("remove", Caught(m))]
       IN  IF ident.sessionCartId = Null THEN fail("Cart Session not found")
           ELSE IF pid \notin Products THEN fail("Product not found")
           ELSE IF id = 0 THEN fail("Cart not found")
           ELSE IF k = 0 THEN fail("Item not found")
           ELSE req' = [req EXCEPT ![p] =
                         [IdleReq EXCEPT !.op = "remove", !.pc = "write",
                            !.ident = ident, !.item = carts[id].items[k], !.cartId = id,
                            !.read = carts[id].items,
                            !.items = RemoveDecide(carts[id].items, k),
                            !.path = IF carts[id].items[k].qty = 1 THEN "remove" ELSE "decrement"]]
  /\ UNCHANGED <<stock, carts, session>>
  /\ UNCHANGED <<priceVars, authVars, limitVars>>
  /\ UNCHANGED orderVars
  /\ UNCHANGED payVars

\* removeItemfromCart's write: prisma.cart.update.
RemWrite(p) ==
  /\ req[p].op = "remove" /\ req[p].pc = "write"
  /\ IsStored(carts[req[p].cartId])
  /\ LET r == req[p]
     IN  carts' = [carts EXCEPT ![r.cartId] = UpdateCartRow(carts[r.cartId], r.items)]
  /\ req' = [req EXCEPT ![p] = Returned(req[p])]
  /\ UNCHANGED <<stock, session>>
  /\ UNCHANGED <<priceVars, authVars, limitVars>>
  /\ UNCHANGED orderVars
  /\ UNCHANGED payVars

\* prisma.cart.create or prisma.cart.update throws (a database error): the
\* catch of the action returns success: false with the error's message.
CartWriteFails(p) ==
  /\ req[p].op \in {"add", "remove"} /\ req[p].pc = "write"
  /\ req' = [req EXCEPT ![p] = Done(req[p].op, Caught("database error"))]
  /\ UNCHANGED <<stock, carts, session>>
  /\ UNCHANGED <<priceVars, authVars, limitVars>>
  /\ UNCHANGED orderVars
  /\ UNCHANGED payVars

\* A cart action has returned; the invocation slot is free again.
CartReturn(p) ==
  /\ req[p].op \in {"add", "remove"} /\ req[p].pc = "done"
  /\ req' = [req EXCEPT ![p] = IdleReq]
  /\ UNCHANGED <<stock, carts, session>>
  /\ UNCHANGED <<priceVars, authVars, limitVars>>
  /\ UNCHANGED orderVars
  /\ UNCHANGED payVars

(***************************************************************************)
(* createOrder (lib/actions/order.actions.ts).                             *)
(***************************************************************************)
MaxOrders == 2

NoUser == [address |-> Null, paymentMethod |-> Null]

\* A provider object id: none, a payment intent "pi_<n>" or a charge "ch_<n>".
NoId == [kind |-> "none", n |-> 0]
IntentId(n) == [kind |-> "pi", n |-> n]
ChargeId(n) == [kind |-> "ch", n |-> n]

NoPaymentResult == [id |-> NoId, status |-> Null, email_address |-> Null, pricePaid |-> 0]

\* getUserById(userId): the user's row.
GetUserById(userId) == user

\* The Order row createOrder builds from the user and the cart it read
\* (insertOrderSchema.parse, then tx.order.create).
OrderRow(userId, u, totals) ==
  [userId |-> userId, shippingAddress |-> u.address, paymentMethod |-> u.paymentMethod,
   itemsPrice |-> totals.itemsPrice, shippingPrice |-> totals.shippingPrice,
   taxPrice |-> totals.taxPrice, totalPrice |-> totals.totalPrice,
   isPaid |-> FALSE, paidAt |-> 0, paymentResult |-> NoPaymentResult]

\* tx.orderItem.create({ data: { ...item, price: item.price, orderId } })
OrderItemRow(item, orderId) ==
  [orderId |-> orderId, productId |-> item.productId, price |-> item.price, qty |-> item.qty]

\* tx.cart.update({ data: { items: [], totalPrice: 0, taxPrice: 0,
\* shippingPrice: 0, itemsPrice: 0 } })
ClearedCart(row) ==
  [row EXCEPT !.items = << >>, !.itemsPrice = 0, !.shippingPrice = 0,
              !.taxPrice = 0, !.totalPrice = 0]

\* A mutation of the transaction: the statements run outside prisma.$transaction,
\* so the rows written before a failure stay.
TxRowsAfterFailureNoRollback(written) == written

\* prisma.$transaction: of the rows its statements wrote before one of them
\* failed, those that exist afterwards (none: the transaction is rolled back).
TxRowsAfterFailure(written) == << >>

RECURSIVE WithOrderId(_, _)
WithOrderId(items, orderId) ==
  IF items = << >> THEN << >>
  ELSE <<OrderItemRow(Head(items), orderId)>> \o WithOrderId(Tail(items), orderId)

OrdersInFlight == Cardinality({q \in Reqs : req[q].op = "order" /\ req[q].pc # "done"})

\* A mutation of the precondition checks: the address is looked at first.
PreconditionRedirectAddressFirst(id, u) ==
  IF u.address = Null THEN "/shipping-address"
  ELSE IF id = 0 \/ carts[id].items = << >> THEN "/cart"
  ELSE IF u.paymentMethod = Null THEN "/payment-method"
  ELSE Null

\* The precondition checks of createOrder (lines 24-46) on the cart read
\* (row id, 0: none) and the user read: the redirectTo returned, Null when
\* all three pass.
PreconditionRedirect(id, u) ==
  IF id = 0 \/ carts[id].items = << >> THEN "/cart"
  ELSE IF u.address = Null THEN "/shipping-address"
  ELSE IF u.paymentMethod = Null THEN "/payment-method"
  ELSE Null

\* createOrder up to the transaction (lines 13-57): session, getMyCart(),
\* getUserById() and the three precondition checks.
OrderRead(p) ==
  /\ req[p].op = "idle"
  /\ Len(orders) + OrdersInFlight < MaxOrders
  /\ LET id == FindFirstCart(session)
         u == GetUserById(session.userId)
     IN  req' = [req EXCEPT ![p] =
           IF session.userId = Null THEN Done("order", "User is not authenticated")
           ELSE IF PreconditionRedirect(id, u) # Null
                THEN Done("order", PreconditionRedirect(id, u))
           ELSE [IdleReq EXCEPT !.op = "order", !.pc = "tx", !.ident = session,
                   !.cartId = id, !.items = carts[id].items,
                   !.totals = [f \in DOMAIN NoTotals |-> carts[id][f]],
                   !.txOrder = <<OrderRow(session.userId, u,
                                          [f \in DOMAIN NoTotals |-> carts[id][f]])>>]]
  /\ UNCHANGED <<stock, carts, session>>
  /\ UNCHANGED <<priceVars, authVars, limitVars>>
  /\ UNCHANGED orderVars
  /\ UNCHANGED payVars

\* insertOrderSchema.parse (lines 49-57) rejects the order object: the throw
\* is caught and createOrder returns success: false before any write.
OrderInvalid(p) ==
  /\ req[p].op = "order" /\ req[p].pc = "tx"
  /\ req' = [req EXCEPT ![p] =
               [Done("order", "failed") EXCEPT !.path = "insertOrderSchema.parse"]]
  /\ UNCHANGED <<stock, carts, session>>
  /\ UNCHANGED <<priceVars, authVars, limitVars>>
  /\ UNCHANGED orderVars
  /\ UNCHANGED payVars

\* The statements of the transaction, in order: tx.order.create, one
\* tx.orderItem.create per cart line, tx.cart.update.  Until the commit none
\* of their writes is visible to another request, so their order against other
\* requests' steps does not matter and the transaction is one step that
\* either commits or fails at one of its statements.
TxStatements(items) == 1..(Len(items) + 2)

StatementName(at, lines) ==
  IF at = 1 THEN "tx.order.create"
  ELSE IF at = lines + 2 THEN "tx.cart.update" ELSE "tx.orderItem.create"

\* The transaction runs all its statements and commits (lines 60-86): the
\* three effects become visible together.
OrderTxCommit(p) ==
  /\ req[p].op = "order" /\ req[p].pc = "tx"
  /\ LET r == req[p]
         orderId == Len(orders) + 1
     IN  /\ orders' = orders \o r.txOrder
         /\ orderItems' = orderItems \o WithOrderId(r.items, orderId)
         /\ carts' = [carts EXCEPT ![r.cartId] = ClearedCart(carts[r.cartId])]
  /\ req' = [req EXCEPT ![p] = Done("order", "Order created")]
  /\ UNCHANGED <<stock, session, user>>
  /\ UNCHANGED <<priceVars, authVars, limitVars>>
  /\ UNCHANGED payVars

\* Statement number `at` of the transaction fails (a database error, the
\* transaction's timeout) after the statements before it ran: the callback
\* throws and createOrder returns success: false.
OrderTxFail(p) ==
  /\ req[p].op = "order" /\ req[p].pc = "tx"
  /\ \E at \in TxStatements(req[p].items) :
       LET r == req[p]
           orderId == Len(orders) + 1
           wroteOrder == IF at = 1 THEN << >> ELSE r.txOrder
           wroteItems == WithOrderId(SubSeq(r.items, 1, IF at = 1 THEN 0 ELSE at - 2), orderId)
       IN  /\ orders' = orders \o TxRowsAfterFailure(wroteOrder)
           /\ orderItems' = orderItems \o TxRowsAfterFailure(wroteItems)
           /\ req' = [req EXCEPT ![p] =
                        [Done("order", "failed") EXCEPT !.path = StatementName(at, Len(r.items))]]
  /\ UNCHANGED <<stock, carts, session, user>>
  /\ UNCHANGED <<priceVars, authVars, limitVars>>
  /\ UNCHANGED payVars

\* createOrder has returned; the invocation slot is free again.
OrderReturn(p) ==
  /\ req[p].op = "order" /\ req[p].pc = "done"
  /\ req' = [req EXCEPT ![p] = IdleReq]
  /\ UNCHANGED <<stock, carts, session>>
  /\ UNCHANGED <<priceVars, authVars, limitVars>>
  /\ UNCHANGED orderVars
  /\ UNCHANGED payVars

(***************************************************************************)
(* Payment intents: getOrCreatePaymentIntent of the order details page.    *)
(***************************************************************************)
MaxIntents == 2
MaxDeliveries == 2

\* The server processes, each with its own paymentIntentCache, and the page
\* loads the model follows (each is one invocation, never reused).
Procs == {"n1", "n2"}
Calls == {"c1", "c2", "c3"}

\* The order of the payment model: placed, Stripe, unpaid, total 100.75.
PlacedTotal == 10000 + 75
PlacedOrder ==
  [userId |-> "u1", shippingAddress |-> "a1", paymentMethod |-> "Stripe",
   itemsPrice |-> 7500, shippingPrice |-> 1000, taxPrice |-> 1575,
   totalPrice |-> PlacedTotal,
   isPaid |-> FALSE, paidAt |-> 0, paymentResult |-> NoPaymentResult]

\* The totals a caller passes as orderTotalPrice: the order's, and another.
OtherTotal == 18000 + 150
ExpectedTotals == {PlacedTotal, OtherTotal}

\* Math.round(Number(orderTotalPrice) * 100): the total in minor units.
MinorUnits(total) == (NumberOfCents(total) * 100 + Scale \div 2) \div Scale

ReusableStatuses == {"requires_payment_method", "requires_confirmation", "requires_action"}

\* A mutation of the reuse test: the intent's status is not looked at.
ReusableAnyStatus(pi, orderId, total) ==
  /\ pi.amount = MinorUnits(total)
  /\ pi.currency = "usd"
  /\ pi.orderId = orderId

\* The test of lines 55-60 on a retrieved intent.
Reusable(pi, orderId, total) ==
  /\ pi.amount = MinorUnits(total)
  /\ pi.currency = "usd"
  /\ pi.orderId = orderId
  /\ pi.status \in ReusableStatuses

\* stripe.paymentIntents.create({ amount, currency: 'usd', metadata: { orderId },
\* automatic_payment_methods }) as the provider stores it.
NewIntent(orderId, total) ==
  [amount |-> MinorUnits(total), currency |-> "usd", orderId |-> orderId,
   status |-> "requires_payment_method"]

\* A cache entry: absent, or the promise of the call `owner`, pending or
\* resolved with a client secret (the secret of intent n is n).
NoEntry == [state |-> "none", owner |-> Null, secret |-> 0]
PendingEntry(c) == [state |-> "pending", owner |-> c, secret |-> 0]
ResolvedEntry(c, secret) == [state |-> "resolved", owner |-> c, secret |-> secret]

\* A mutation of the registry test: only a settled result counts as a hit.
CacheHitResolvedOnly(entry) == entry.state = "resolved"

\* paymentIntentCache.has(orderId)
CacheHit(entry) == entry.state # "none"

\* A call's result: 0 while it has none, Thrown when it threw, else the
\* client secret it returned.  providerError: a provider call of this call
\* (retrieve or create) has thrown.
Thrown == 0 - 1
IdleCall ==
  [pc |-> "idle", role |-> Null, proc |-> Null, orderId |-> 0, total |-> 0,
   awaits |-> Null, stored |-> NoId, intent |-> 0, result |-> 0, overlap |-> {},
   providerError |-> FALSE]

InFlight == {"findOrder", "retrieve", "create", "update", "await"}

\* The calls on the same process and order that are running when one starts.
Running(c, proc, orderId) ==
  {d \in Calls \ {c} : /\ calls[d].pc \in InFlight
                       /\ calls[d].proc = proc
                       /\ calls[d].orderId = orderId}

\* The promise of owner c settles with `result`: the calls awaiting it get
\* the result too, in the same turn of the event loop.
Settled(c, result, fault) ==
  [d \in Calls |->
     IF d = c
     THEN [calls[d] EXCEPT !.pc = "done", !.result = result,
                           !.providerError = calls[d].providerError \/ fault]
     ELSE IF calls[d].pc = "await" /\ calls[d].awaits = c
     THEN [calls[d] EXCEPT !.pc = "done", !.result = result]
     ELSE calls[d]]

\* The owner's promise resolves: its cache entry, if still there, now holds
\* the secret, and the owner arms the timer that deletes the key (line 102).
SettleOk(c, secret) ==
  LET k == calls[c]
  IN  /\ calls' = Settled(c, secret, FALSE)
      /\ cache' = IF cache[k.proc][k.orderId].owner = c
                  THEN [cache EXCEPT ![k.proc][k.orderId] = ResolvedEntry(c, secret)]
                  ELSE cache
      /\ timers' = timers \cup {[proc |-> k.proc, orderId |-> k.orderId, owner |-> c]}

\* A mutation of the rejection: the key stays in the registry.
SettleThrowKeepsEntry(c, fault) ==
  /\ calls' = Settled(c, Thrown, fault)
  /\ UNCHANGED <<cache, timers>>

\* The owner's promise rejects (fault: because a provider call threw): the
\* owner deletes the key and rethrows (lines 104-108).
SettleThrow(c, fault) ==
  LET k == calls[c]
  IN  /\ calls' = Settled(c, Thrown, fault)
      /\ cache' = [cache EXCEPT ![k.proc][k.orderId] = NoEntry]
      /\ UNCHANGED timers

\* OrderDetailsPage reads the order (getOrderById) and goes on to the intent
\* only for an unpaid Stripe order (lines 116-126).
PageRead(c) ==
  /\ calls[c].pc = "idle"
  /\ \E n \in Procs, o \in 1..Len(orders), total \in ExpectedTotals :
       /\ orders[o].paymentMethod = "Stripe" /\ ~orders[o].isPaid
       /\ calls' = [calls EXCEPT ![c] =
                      [IdleCall EXCEPT !.pc = "start", !.proc = n,
                                       !.orderId = o, !.total = total]]
  /\ UNCHANGED <<intents, cache, timers, now, hook>>
  /\ UNCHANGED <<priceVars, authVars, limitVars, cartVars, orderVars>>

\* getOrCreatePaymentIntent, lines 20-30 and 97: the registry test and, on a
\* miss, the start of the attempt and paymentIntentCache.set, in one turn.
PayStart(c) ==
  /\ calls[c].pc = "start"
  /\ LET k == calls[c]
         entry == cache[k.proc][k.orderId]
         seen == Running(c, k.proc, k.orderId)
     IN  IF CacheHit(entry)
         THEN /\ calls' = [calls EXCEPT ![c] =
                   IF entry.state = "resolved"
                   THEN [k EXCEPT !.pc = "done", !.role = "cached", !.awaits = entry.owner,
                                  !.result = entry.secret, !.overlap = seen]
                   ELSE [k EXCEPT !.pc = "await", !.role = "joiner", !.awaits = entry.owner,
                                  !.overlap = seen]]
              /\ UNCHANGED cache
         ELSE /\ calls' = [calls EXCEPT ![c] =
                   [k EXCEPT !.pc = "findOrder", !.role = "owner", !.overlap = seen]]
              /\ cache' = [cache EXCEPT ![k.proc][k.orderId] = PendingEntry(c)]
  /\ UNCHANGED <<intents, timers, now, hook>>
  /\ UNCHANGED <<priceVars, authVars, limitVars, cartVars, orderVars>>

\* prisma.order.findUnique({ select: { paymentResult } }) and the test of the
\* stored id (lines 32-48).
PayFindOrder(c) ==
  /\ calls[c].pc = "findOrder"
  /\ LET stored == orders[calls[c].orderId].paymentResult.id
     IN  calls' = [calls EXCEPT ![c].stored = stored,
                                ![c].pc = IF stored.kind = "pi" THEN "retrieve" ELSE "create"]
  /\ UNCHANGED <<intents, cache, timers, now, hook>>
  /\ UNCHANGED <<priceVars, authVars, limitVars, cartVars, orderVars>>

\* stripe.paymentIntents.retrieve and the reuse test (lines 50-67): a reusable
\* intent's secret is returned; otherwise, and when the retrieval throws, the
\* call goes on to create.
PayRetrieve(c) ==
  /\ calls[c].pc = "retrieve"
  /\ LET k == calls[c]
     IN  \/ /\ Reusable(intents[k.stored.n], k.orderId, k.total)
            /\ SettleOk(c, k.stored.n)
         \/ /\ ~Reusable(intents[k.stored.n], k.orderId, k.total)
            /\ calls' = [calls EXCEPT ![c].pc = "create"]
            /\ UNCHANGED <<cache, timers>>
         \/ /\ calls' = [calls EXCEPT ![c].pc = "create", ![c].providerError = TRUE]
            /\ UNCHANGED <<cache, timers>>
  /\ UNCHANGED <<intents, now, hook>>
  /\ UNCHANGED <<priceVars, authVars, limitVars, cartVars, orderVars>>

\* stripe.paymentIntents.create (lines 70-77), which may throw.
PayCreate(c) ==
  /\ calls[c].pc = "create"
  /\ LET k == calls[c]
     IN  \/ /\ Len(intents) < MaxIntents
            /\ intents' = Append(intents, NewIntent(k.orderId, k.total))
            /\ calls' = [calls EXCEPT ![c].pc = "update", ![c].intent = Len(intents) + 1]
            /\ UNCHANGED <<cache, timers>>
         \/ /\ SettleThrow(c, TRUE)
            /\ UNCHANGED intents
  /\ UNCHANGED <<now, hook>>
  /\ UNCHANGED <<priceVars, authVars, limitVars, cartVars, orderVars>>

\* The paymentResult the call stores for the intent it created (lines 84-89).
PendingResult(n) ==
  [id |-> IntentId(n), status |-> "pending", email_address |-> "", pricePaid |-> 0]

\* A mutation of the update: when it throws, the error is dropped and the
\* secret is returned all the same.
PayUpdateSecretAnyway(c) ==
  /\ calls[c].pc = "update"
  /\ LET k == calls[c]
     IN  \/ /\ orders' = [orders EXCEPT ![k.orderId].paymentResult = PendingResult(k.intent)]
            /\ SettleOk(c, k.intent)
         \/ /\ SettleOk(c, k.intent)
            /\ UNCHANGED orders
  /\ UNCHANGED <<intents, now, hook>>
  /\ UNCHANGED <<priceVars, authVars, limitVars, cartVars, user, orderItems>>

\* prisma.order.update({ data: { paymentResult } }) and return of the secret
\* (lines 81-93); the update may throw.
PayUpdate(c) ==
  /\ calls[c].pc = "update"
  /\ LET k == calls[c]
     IN  \/ /\ orders' = [orders EXCEPT ![k.orderId].paymentResult = PendingResult(k.intent)]
            /\ SettleOk(c, k.intent)
         \/ /\ SettleThrow(c, FALSE)
            /\ UNCHANGED orders
  /\ UNCHANGED <<intents, now, hook>>
  /\ UNCHANGED <<priceVars, authVars, limitVars, cartVars, user, orderItems>>

\* The callback of setTimeout(..., 5 * 60 * 1000) runs:
\* paymentIntentCache.delete(orderId).
TimerFires ==
  /\ \E t \in timers :
       /\ cache' = [cache EXCEPT ![t.proc][t.orderId] = NoEntry]
       /\ timers' = timers \ {t}
  /\ UNCHANGED <<intents, calls, now, hook>>
  /\ UNCHANGED <<priceVars, authVars, limitVars, cartVars, orderVars>>

(***************************************************************************)
(* The provider's customer and the webhook route.                          *)
(***************************************************************************)
\* The browser confirms the payment of an intent whose client secret some
\* page load returned: the provider charges it.
CustomerPays ==
  /\ \E i \in 1..Len(intents) :
       /\ intents[i].status \in ReusableStatuses
       /\ \E c \in Calls : calls[c].pc = "done" /\ calls[c].result = i
       /\ intents' = [intents EXCEPT ![i].status = "succeeded"]
  /\ UNCHANGED <<cache, timers, calls, now, hook>>
  /\ UNCHANGED <<priceVars, authVars, limitVars, cartVars, orderVars>>

\* STRIPE_WEBHOOK_SECRET, and the stripe-signature headers a request can
\* carry: none, one made with the server's secret, one made with another key.
WebhookSecret == "whsec_server"
ForgedSignature == "whsec_other"
Signatures == {Null, WebhookSecret, ForgedSignature}

\* The events the provider signs: charge.succeeded for a charged intent (its
\* metadata copied to the charge) and events of other types, among them the
\* payment_intent.succeeded that names the same order.
ProviderEvents ==
  {[type |-> "charge.succeeded", orderId |-> intents[i].orderId, charge |-> i,
    amount |-> intents[i].amount] : i \in {j \in 1..Len(intents) : intents[j].status = "succeeded"}}
  \cup {[type |-> "payment_intent.succeeded", orderId |-> intents[i].orderId, charge |-> i,
          amount |-> intents[i].amount] : i \in {j \in 1..Len(intents) : intents[j].status = "succeeded"}}
  \cup {[type |-> "payment_intent.created", orderId |-> 0, charge |-> 0, amount |-> 0]}

\* The payloads anybody else can post: a charge.succeeded naming any order.
ForeignEvents ==
  {[type |-> "charge.succeeded", orderId |-> o, charge |-> 0, amount |-> orders[o].totalPrice] :
     o \in 1..Len(orders)}

Payloads(signature) == IF signature = WebhookSecret THEN ProviderEvents ELSE ForeignEvents

\* stripe.webhooks.constructEvent(payload, signature, webhookSecret) succeeds.
ConstructEvent(signature, secret) == signature = secret

\* (object.amount / 100).toFixed(): the amount in whole units, as text.
PricePaid(amount) == (amount + 50) \div 100

\* The paymentResult the route passes to updateOrderToPaid (lines 63-68).
CompletedResult(ev) ==
  [id |-> ChargeId(ev.charge), status |-> "COMPLETED", email_address |-> "payer",
   pricePaid |-> PricePaid(ev.amount)]

\* A mutation of updateOrderToPaid: a blind update.
UpdateOrderToPaidBlind(rows, orderId, paymentResult, at) ==
  [rows EXCEPT ![orderId].isPaid = TRUE, ![orderId].paidAt = at,
               ![orderId].paymentResult = paymentResult]

\* updateOrderToPaid({ orderId, paymentResult }): the paid transition,
\* conditioned on the order not being paid already.
UpdateOrderToPaid(rows, orderId, paymentResult, at) ==
  IF rows[orderId].isPaid THEN rows
  ELSE [rows EXCEPT ![orderId].isPaid = TRUE, ![orderId].paidAt = at,
                    ![orderId].paymentResult = paymentResult]

\* The last request (whether the limiter refused it, the secret the server
\* had, the signature and the payload) and its response (the status, and
\* whether updateOrderToPaid was called).
NoHook ==
  [limited |-> FALSE, secret |-> Null, signature |-> Null, type |-> Null, orderId |-> 0,
   status |-> 0, called |-> FALSE]

Response(limited, secret, signature, ev, status, called) ==
  [limited |-> limited, secret |-> secret, signature |-> signature, type |-> ev.type,
   orderId |-> ev.orderId, status |-> status, called |-> called]

\* A mutation of the route: a payload whose signature fails verification is
\* processed all the same.
VerifiedUnchecked(signature, secret) == TRUE

\* The two signature tests of the route (lines 31-54).
Verified(signature, secret) == signature # Null /\ ConstructEvent(signature, secret)

\* A mutation of the event test: payment_intent.succeeded is processed too.
IsPaymentAnySucceeded(ev) == ev.type \in {"charge.succeeded", "payment_intent.succeeded"}

\* if (event.type === 'charge.succeeded') (line 57)
IsPayment(ev) == ev.type = "charge.succeeded"

\* POST /api/webhooks/stripe.  `limited` is the outcome of checkRateLimit for
\* the sender, `secret` the configured STRIPE_WEBHOOK_SECRET.
HookPost ==
  /\ now < MaxDeliveries
  /\ \E limited \in BOOLEAN, secret \in {Null, WebhookSecret}, signature \in Signatures :
       \E ev \in Payloads(signature) :
         IF limited THEN
           /\ hook' = Response(limited, secret, signature, ev, 429, FALSE)
           /\ UNCHANGED orders
         ELSE IF secret = Null THEN
           /\ hook' = Response(limited, secret, signature, ev, 500, FALSE)
           /\ UNCHANGED orders
         ELSE IF ~Verified(signature, secret) THEN
           /\ hook' = Response(limited, secret, signature, ev, 400, FALSE)
           /\ UNCHANGED orders
         ELSE IF IsPayment(ev) THEN
           /\ orders' = UpdateOrderToPaid(orders, ev.orderId, CompletedResult(ev), now + 1)
           /\ hook' = Response(limited, secret, signature, ev, 200, TRUE)
         ELSE
           /\ hook' = Response(limited, secret, signature, ev, 200, FALSE)
           /\ UNCHANGED orders
  /\ now' = now + 1
  /\ UNCHANGED <<intents, cache, timers, calls>>
  /\ UNCHANGED <<priceVars, authVars, limitVars, cartVars, user, orderItems>>

(***************************************************************************)
(* Sign-in: the cart merge of the jwt callback (auth.ts).                  *)
(***************************************************************************)
MaxSignIns == 2

\* The user who signs in, and the cookie of a second browser.
UserId == "u1"
OtherCookie == "s2"

\* No sign-in in progress; `count` is the number of sign-ins started.
NoLogin == [pc |-> "idle", cookie |-> Null, cartId |-> 0, result |-> Null, count |-> 0]

\* prisma.cart.findFirst({ where: { sessionCartId } }): the row id, 0 for none.
FindSessionCart(sessionCartId) ==
  LET hits == {i \in 1..Len(carts) : carts[i].sessionCartId = sessionCartId}
  IN  IF hits = {} THEN 0 ELSE CHOOSE i \in hits : \A j \in hits : i <= j

\* The carts a user owns.
CartsOf(rows, userId) == {i \in 1..Len(rows) : rows[i].userId = userId}

\* prisma.cart.deleteMany({ where: { userId } })
DeleteMany(rows, userId) ==
  [i \in 1..Len(rows) |-> IF rows[i].userId = userId THEN DeletedCart ELSE rows[i]]

\* The jwt callback returns the token: the browser is signed in.
SignedInAs(s) == [s EXCEPT !.userId = UserId]

\* The sign-in ends with `result`: "token" when the callback returned the
\* token, else the error that left it.
LoginDone(result) == [login EXCEPT !.pc = "done", !.result = result]

\* An error thrown by a prisma call of the merge: nothing in the callback
\* catches it, so it is the outcome of the sign-in.
MergeError(error) == error

\* The jwt callback starts for a sign-in (trigger signIn, lines 99-120) and
\* reads the browser's sessionCartId cookie.
SignInStart ==
  /\ login.pc = "idle" /\ login.count < MaxSignIns
  /\ session.userId = Null
  /\ login' = [login EXCEPT !.pc = "find", !.cookie = session.sessionCartId,
                            !.count = login.count + 1]
  /\ UNCHANGED <<stock, carts, session, req>>
  /\ UNCHANGED <<priceVars, orderVars, payVars, limitVars>>

\* prisma.cart.findFirst for the session cart (lines 121-125); the query may
\* throw.
SignInFind ==
  /\ login.pc = "find"
  /\ \/ LET id == FindSessionCart(login.cookie)
        IN  IF id = 0
            THEN login' = LoginDone("token") /\ session' = SignedInAs(session)
            ELSE login' = [login EXCEPT !.pc = "delete", !.cartId = id] /\ UNCHANGED session
     \/ login' = LoginDone(MergeError("database error")) /\ UNCHANGED session
  /\ UNCHANGED <<stock, carts, req>>
  /\ UNCHANGED <<priceVars, orderVars, payVars, limitVars>>

\* prisma.cart.deleteMany for the user's carts (lines 127-129); may throw.
SignInDelete ==
  /\ login.pc = "delete"
  /\ \/ /\ carts' = DeleteMany(carts, UserId)
        /\ login' = [login EXCEPT !.pc = "rebind"]
     \/ /\ login' = LoginDone(MergeError("database error"))
        /\ UNCHANGED carts
  /\ UNCHANGED <<stock, session, req>>
  /\ UNCHANGED <<priceVars, orderVars, payVars, limitVars>>

\* prisma.cart.update({ where: { id: sessionCart.id }, data: { userId } })
\* (lines 132-135) and return of the token; the update throws when the row
\* is gone, and may throw otherwise.
SignInRebind ==
  /\ login.pc = "rebind"
  /\ \/ IF IsStored(carts[login.cartId])
        THEN /\ carts' = [carts EXCEPT ![login.cartId].userId = UserId]
             /\ login' = LoginDone("token")
             /\ session' = SignedInAs(session)
        ELSE /\ login' = LoginDone(MergeError("record not found"))
             /\ UNCHANGED <<carts, session>>
     \/ /\ login' = LoginDone(MergeError("database error"))
        /\ UNCHANGED <<carts, session>>
  /\ UNCHANGED <<stock, req>>
  /\ UNCHANGED <<priceVars, orderVars, payVars, limitVars>>

\* The sign-in request is over.
SignInReturn ==
  /\ login.pc = "done"
  /\ login' = [NoLogin EXCEPT !.count = login.count]
  /\ UNCHANGED cartVars
  /\ UNCHANGED <<priceVars, orderVars, payVars, limitVars>>

\* signOutUser(): the session ends; the sessionCartId cookie stays.
SignOut ==
  /\ login.pc = "idle" /\ session.userId # Null
  /\ session' = [session EXCEPT !.userId = Null]
  /\ UNCHANGED <<stock, carts, req, login>>
  /\ UNCHANGED <<priceVars, orderVars, payVars, limitVars>>

\* The user moves to another browser, which has its own sessionCartId cookie
\* and no session.
OtherBrowser ==
  /\ login.pc = "idle" /\ session.sessionCartId # OtherCookie
  /\ session' = [userId |-> Null, sessionCartId |-> OtherCookie]
  /\ UNCHANGED <<stock, carts, req, login>>
  /\ UNCHANGED <<priceVars, orderVars, payVars, limitVars>>

(***************************************************************************)
(* Rate limiting: src/lib/rate-limit.ts.  Time is counted in minutes; the  *)
(* limits, the 15-minute interval and the number of identifiers a limiter  *)
(* tracks are scaled down.                                                 *)
(***************************************************************************)
MaxRequests == 2
LongInterval == 3
Minute == 1
MaxTracked == 1
MaxClock == 4
MaxChecks == 5

\* Two of the four endpoint types: one with a 15-minute interval, one with a
\* one-minute interval.
Types == {"auth", "upload"}
Ips == {"a", "b"}

\* rateLimitConfig
RateLimitConfig ==
  [auth |-> [maxRequests |-> MaxRequests, interval |-> LongInterval],
   upload |-> [maxRequests |-> MaxRequests, interval |-> Minute]]

\* createRateLimiter({ uniqueTokenPerInterval }): the `max` of the LRUCache.
UniqueTokenPerInterval == MaxTracked

\* const identifier = `${type}:${ip}`
Identifier(type, ip) == <<type, ip>>
Identifiers == Types \X Ips

\* MemoryRedisClient: a key the Map does not hold.
NoRedisItem == [value |-> 0, expiry |-> 0]

\* MemoryRedisClient.get: an expired item is deleted and null is returned
\* (value 0 stands for null: incr never stores 0).
RedisGet(store, key, t) ==
  IF store[key] = NoRedisItem \/ t > store[key].expiry
  THEN [store |-> [store EXCEPT ![key] = NoRedisItem], value |-> 0]
  ELSE [store |-> store, value |-> store[key].value]

\* MemoryRedisClient.set(key, value, { EX }): the expiry is EX from now.
RedisSet(store, key, value, ex, t) ==
  [store EXCEPT ![key] = [value |-> value, expiry |-> t + ex]]

\* MemoryRedisClient.incr: get, add one, set with EX: 60.
RedisIncr(store, key, t) ==
  LET got == RedisGet(store, key, t)
      newValue == got.value + 1
  IN [store |-> RedisSet(got.store, key, newValue, Minute, t), value |-> newValue]

\* MemoryRedisClient.expire
RedisExpire(store, key, seconds, t) ==
  IF store[key] # NoRedisItem THEN [store EXCEPT ![key].expiry = t + seconds] ELSE store

\* LRUCache: the position of a token's entry, 0 if it has none.
IndexOf(entries, token) ==
  IF \E i \in 1..Len(entries) : entries[i].token = token
  THEN CHOOSE i \in 1..Len(entries) : entries[i].token = token
  ELSE 0

Without(entries, i) == SubSeq(entries, 1, i - 1) \o SubSeq(entries, i + 1, Len(entries))

\* tokenCache.get(token): an entry older than ttl is dropped and undefined is
\* returned (value 0: a stored count is at least 1); a live entry becomes the
\* most recently used.
LruGet(entries, token, ttl, t) ==
  LET i == IndexOf(entries, token)
  IN IF i = 0 THEN [entries |-> entries, value |-> 0]
     ELSE IF t - entries[i].start > ttl
          THEN [entries |-> Without(entries, i), value |-> 0]
          ELSE [entries |-> Append(Without(entries, i), entries[i]),
                value |-> entries[i].count]

\* tokenCache.set(token, tokenCount): with `max` entries held, the least
\* recently used one is evicted; the entry's age starts now.
LruSet(entries, token, count, max, t) ==
  LET i == IndexOf(entries, token)
      rest == IF i = 0 THEN entries ELSE Without(entries, i)
      room == IF Len(rest) >= max THEN Tail(rest) ELSE rest
  IN Append(room, [token |-> token, count |-> count, start |-> t])

\* tokenCount[0] += 1 on the array the cache holds.
LruBump(entries, token) ==
  [i \in 1..Len(entries) |->
     IF entries[i].token = token
     THEN [entries[i] EXCEPT !.count = entries[i].count + 1] ELSE entries[i]]

\* What check() returns, as far as the caller uses it.
Checked(type, ip, current, limit) ==
  [type |-> type, ip |-> ip, at |-> clock, success |-> ~(current > limit)]

\* checkRateLimit(request, type) with REDIS_URL set: check() counts in redis.
CheckRedis(type, ip) ==
  /\ redisUrl /\ Len(checks) < MaxChecks
  /\ LET key == Identifier(type, ip)
         inc == RedisIncr(redisCache, key, clock)
         current == inc.value
     IN /\ redisCache' = IF current = 1
                         THEN RedisExpire(inc.store, key, RateLimitConfig[type].interval, clock)
                         ELSE inc.store
        /\ checks' = Append(checks, Checked(type, ip, current, RateLimitConfig[type].maxRequests))
  /\ UNCHANGED <<redisUrl, tokenCache, clock>>
  /\ UNCHANGED <<priceVars, cartVars, orderVars, payVars, authVars>>

\* checkRateLimit(request, type) without REDIS_URL: check() counts in the
\* limiter's LRUCache.
CheckMemory(type, ip) ==
  /\ ~redisUrl /\ Len(checks) < MaxChecks
  /\ LET token == Identifier(type, ip)
         got == LruGet(tokenCache[type], token, RateLimitConfig[type].interval, clock)
         held == IF got.value = 0
                 THEN LruSet(got.entries, token, 0, UniqueTokenPerInterval, clock)
                 ELSE got.entries
         currentUsage == got.value + 1
     IN /\ tokenCache' = [tokenCache EXCEPT ![type] = LruBump(held, token)]
        /\ checks' = Append(checks, Checked(type, ip, currentUsage, RateLimitConfig[type].maxRequests))
  /\ UNCHANGED <<redisUrl, redisCache, clock>>
  /\ UNCHANGED <<priceVars, cartVars, orderVars, payVars, authVars>>

CheckRateLimit(type, ip) == CheckRedis(type, ip) \/ CheckMemory(type, ip)

\* A minute passes.
ClockTick ==
  /\ clock < MaxClock
  /\ clock' = clock + 1
  /\ UNCHANGED <<redisUrl, redisCache, tokenCache, checks>>
  /\ UNCHANGED <<priceVars, cartVars, orderVars, payVars, authVars>>

LimitIdle ==
  /\ redisUrl = FALSE
  /\ redisCache = [k \in Identifiers |-> NoRedisItem]
  /\ tokenCache = [type \in Types |-> << >>]
  /\ clock = 0
  /\ checks = << >>

PriceIdle == priceIn = << >> /\ priceOut = << >>

CartEmpty ==
  /\ carts = << >>
  /\ req = [p \in Reqs |-> IdleReq]

PayIdle ==
  /\ intents = << >>
  /\ cache = [n \in Procs |-> [o \in 1..MaxOrders |-> NoEntry]]
  /\ timers = {}
  /\ calls = [c \in Calls |-> IdleCall]
  /\ now = 0
  /\ hook = NoHook

NoOrders ==
  /\ orders = << >>
  /\ orderItems = << >>

PriceInit ==
  /\ priceIn \in SeqsUpTo(PriceLine, MaxPriceLines)
  /\ priceOut = << >>
  /\ stock = [p \in Products |-> 0]
  /\ session = Anonymous
  /\ CartEmpty
  /\ user = NoUser
  /\ NoOrders
  /\ PayIdle
  /\ login = NoLogin
  /\ LimitIdle

PriceNext == ApplyCalcPrice

SpecPrice == PriceInit /\ [][PriceNext]_vars

CartInit ==
  /\ PriceIdle
  /\ stock \in [Products -> 0..MaxStock]
  /\ session \in {Anonymous, SignedIn}
  /\ CartEmpty
  /\ user = NoUser
  /\ NoOrders
  /\ PayIdle
  /\ login = NoLogin
  /\ LimitIdle

CartNext ==
  \E p \in Reqs :
    \/ AddRead(p, AnyQty)
    \/ AddWrite(p)
    \/ RemGetCart(p)
    \/ RemWrite(p)
    \/ CartWriteFails(p)
    \/ CartReturn(p)

SpecCart == CartInit /\ [][CartNext]_vars

\* Checkout: the cart actions together with createOrder, for a signed-in user.
OrderInit ==
  /\ PriceIdle
  /\ stock = [p \in Products |-> 1]
  /\ session = SignedIn
  /\ CartEmpty
  /\ user \in [address : {Null, "a1"}, paymentMethod : {Null, "Stripe"}]
  /\ NoOrders
  /\ PayIdle
  /\ login = NoLogin
  /\ LimitIdle

Next ==
  \E p \in Reqs :
    \/ AddRead(p, OneUnit)
    \/ AddWrite(p)
    \/ RemGetCart(p)
    \/ RemWrite(p)
    \/ CartWriteFails(p)
    \/ CartReturn(p)
    \/ OrderRead(p)
    \/ OrderInvalid(p)
    \/ OrderTxCommit(p)
    \/ OrderTxFail(p)
    \/ OrderReturn(p)

Spec == OrderInit /\ [][Next]_vars

\* Payment: page loads of a placed, unpaid Stripe order on two server
\* processes, and the customer.
PayInit ==
  /\ PriceIdle
  /\ stock = [p \in Products |-> 1]
  /\ session = SignedIn
  /\ CartEmpty
  /\ user = [address |-> "a1", paymentMethod |-> "Stripe"]
  /\ orders = <<PlacedOrder>>
  /\ orderItems = <<OrderItemRow([productId |-> "p1", price |-> PriceOf("p1"), qty |-> 3], 1)>>
  /\ PayIdle
  /\ login = NoLogin
  /\ LimitIdle

PageLoad(c) ==
  \/ PageRead(c)
  \/ PayStart(c)
  \/ PayFindOrder(c)
  \/ PayRetrieve(c)
  \/ PayCreate(c)
  \/ PayUpdate(c)

PayNext ==
  \/ \E c \in Calls : PageLoad(c)
  \/ TimerFires
  \/ CustomerPays

SpecPay == PayInit /\ [][PayNext]_vars

\* The page loads with timers that run: a setTimeout callback that is due is
\* eventually called by the event loop.
SpecGrace == PayInit /\ [][PayNext]_vars /\ WF_vars(TimerFires)

\* Payment confirmation: the webhook route next to two of the page loads.
HookCalls == {"c1", "c2"}

HookNext ==
  \/ \E c \in HookCalls : PageLoad(c)
  \/ TimerFires
  \/ CustomerPays
  \/ HookPost

SpecHook == PayInit /\ [][HookNext]_vars

\* Sign-in: one browser at a time adding and removing items, signing in and
\* out, starting without carts.
MergeInit ==
  /\ PriceIdle
  /\ stock = [p \in Products |-> 1]
  /\ session = Anonymous
  /\ CartEmpty
  /\ user = NoUser
  /\ NoOrders
  /\ PayIdle
  /\ login = NoLogin
  /\ LimitIdle

MergeCalls == {"r1"}

MergeNext ==
  \/ \E p \in MergeCalls :
       \/ AddRead(p, OneUnit)
       \/ AddWrite(p)
       \/ RemGetCart(p)
       \/ RemWrite(p)
       \/ CartWriteFails(p)
       \/ CartReturn(p)
  \/ SignInStart
  \/ SignInFind
  \/ SignInDelete
  \/ SignInRebind
  \/ SignInReturn
  \/ SignOut
  \/ OtherBrowser

SpecMerge == MergeInit /\ [][MergeNext]_vars

\* The rate limiter alone, with or without REDIS_URL.
LimitInit ==
  /\ priceIn = << >> /\ priceOut = << >>
  /\ stock = [p \in Products |-> 0]
  /\ session = Anonymous
  /\ CartEmpty
  /\ user = NoUser
  /\ NoOrders
  /\ PayIdle
  /\ login = NoLogin
  /\ redisUrl \in BOOLEAN
  /\ redisCache = [k \in Identifiers |-> NoRedisItem]
  /\ tokenCache = [type \in Types |-> << >>]
  /\ clock = 0
  /\ checks = << >>

LimitNext ==
  \/ \E type \in Types, ip \in Ips : CheckRateLimit(type, ip)
  \/ ClockTick

SpecLimit == LimitInit /\ [][LimitNext]_vars

(***************************************************************************)
(* Properties of pricing, of the cart actions and of checkout.             *)
(***************************************************************************)
\* The sum of price x qty over an item list, in cents.
RECURSIVE CentsOfLines(_, _)
CentsOfLines(items, n) ==
  IF n = 0 THEN 0 ELSE CentsOfLines(items, n - 1) + items[n].price * items[n].qty

Money(int, frac) == [int |-> int, frac |-> frac]

\* C1: under every interleaving of addItemToCart and removeItemfromCart, each
\* stored cart's four totals are calcPrice of its stored item list.
C1_TotalsMatchItems ==
  \A i \in 1..Len(carts) :
    LET t == CalcPrice(carts[i].items)
    IN  /\ carts[i].itemsPrice = DecimalOf(t.itemsPrice)
        /\ carts[i].shippingPrice = DecimalOf(t.shippingPrice)
        /\ carts[i].taxPrice = DecimalOf(t.taxPrice)
        /\ carts[i].totalPrice = DecimalOf(t.totalPrice)

\* A cart that updates have grown to two lines, one of them incremented, while
\* another action is about to overwrite it.
C1_Witness ==
  \E i \in 1..Len(carts) :
    /\ Len(carts[i].items) = 2
    /\ \E k \in 1..2 : carts[i].items[k].qty >= 2
    /\ \E p \in Reqs : req[p].pc = "write" /\ req[p].cartId = i /\ req[p].items # carts[i].items

\* C2: calcPrice in exact cents: itemsPrice is the sum of price x qty, shipping
\* is 0 above 100.00 and 10.00 otherwise (also at exactly 100.00 and for no
\* items), tax is 21% rounded half-up, the total is their sum; 25.00 x 3 gives
\* 75.00 / 10.00 / 15.75 / 100.75 and 150.00 gives 0.00 / 31.50 / 181.50.
C2_CalcPriceFormula ==
  priceOut # << >> =>
    LET out == priceOut[1]
        ic == CentsOfLines(priceIn, Len(priceIn))
        ship == IF ic > 10000 THEN 0 ELSE 1000
        tax == (21 * ic + 50) \div 100
    IN  /\ \A f \in DOMAIN out : out[f].frac \in 0..99 /\ out[f].int >= 0
        /\ DecimalOf(out.itemsPrice) = ic
        /\ DecimalOf(out.shippingPrice) = ship
        /\ DecimalOf(out.taxPrice) = tax
        /\ DecimalOf(out.totalPrice) = ic + ship + tax
        /\ (ic = 10000 \/ ic = 0) => out.shippingPrice = Money(10, 0)
        /\ priceIn = <<[price |-> 2500, qty |-> 3]>> =>
             out = [itemsPrice |-> Money(75, 0), shippingPrice |-> Money(10, 0),
                    taxPrice |-> Money(15, 75), totalPrice |-> Money(100, 75)]
        /\ ic = 15000 =>
             out = [itemsPrice |-> Money(150, 0), shippingPrice |-> Money(0, 0),
                    taxPrice |-> Money(31, 50), totalPrice |-> Money(181, 50)]

\* calcPrice has priced two lines worth exactly 100.00, which ship for 10.00.
C2_Witness ==
  /\ priceOut # << >>
  /\ Len(priceIn) = 2
  /\ CentsOfLines(priceIn, 2) = 10000
  /\ priceOut[1].shippingPrice = Money(10, 0)

\* The line an addItemToCart write leaves for its product, in the state after.
WrittenQty(r, after) ==
  LET id == IF r.path = "create" THEN Len(after) ELSE r.cartId
  IN  after[id].items[FindItem(after[id].items, r.item.productId)].qty

\* C3: every successful addItemToCart leaves the affected line with a quantity
\* of at most the product's stock as that call read it (create, append and
\* increment alike).
C3_AddWithinStock ==
  [][\A p \in Reqs :
       (req[p].op = "add" /\ req[p].pc = "write" /\ req'[p].result = "success")
         => WrittenQty(req[p], carts') <= req[p].stockRead]_vars

\* C4: when two addItemToCart calls for one product overlap on one existing
\* cart, neither write leaves that product's line above the product's stock.
C4_ConcurrentAddWithinStock ==
  [][\A p, q \in Reqs :
       ( /\ p # q
         /\ req[p].op = "add" /\ req[p].pc = "write" /\ req'[p].result = "success"
         /\ req[q].op = "add" /\ req[q].pc = "write"
         /\ req[p].cartId # 0 /\ req[q].cartId = req[p].cartId
         /\ req[q].item.productId = req[p].item.productId )
         => WrittenQty(req[p], carts') <= stock[req[p].item.productId]]_vars

(***************************************************************************)
(* Properties of createOrder.                                              *)
(***************************************************************************)
\* C5: createOrder's writes are all-or-nothing.  A call whose transaction
\* fails leaves the Order and OrderItem tables and the cart as they were; a
\* call that succeeds adds the Order row, one OrderItem row per cart line and
\* the cleared cart in one step; nothing else writes an Order or OrderItem.
C5_CreateOrderAllOrNothing ==
  [][/\ \A p \in Reqs :
          (req[p].op = "order" /\ req[p].pc = "tx" /\ req'[p].pc = "done") =>
            LET r == req[p]
                n == Len(r.items)
            IN  \/ /\ req'[p].result = "failed"
                   /\ orders' = orders /\ orderItems' = orderItems /\ carts' = carts
                \/ /\ req'[p].result = "Order created"
                   /\ Len(orders') = Len(orders) + 1
                   /\ SubSeq(orders', 1, Len(orders)) = orders
                   /\ Len(orderItems') = Len(orderItems) + n
                   /\ SubSeq(orderItems', 1, Len(orderItems)) = orderItems
                   /\ \A k \in 1..n :
                        LET oi == orderItems'[Len(orderItems) + k]
                        IN  /\ oi.orderId = Len(orders')
                            /\ oi.productId = r.items[k].productId
                   /\ carts'[r.cartId].items = << >>
     /\ (orders' # orders \/ orderItems' # orderItems) =>
          \E p \in Reqs : req[p].pc = "tx" /\ req'[p].result = "Order created"]_vars

\* A createOrder call has failed at the cart update, after the order and its
\* items were written inside the transaction: no Order or OrderItem row exists
\* and the cart still holds its lines.
C5_Witness ==
  \E p \in Reqs :
    /\ req[p].op = "order" /\ req[p].pc = "done"
    /\ req[p].result = "failed" /\ req[p].path = "tx.cart.update"
    /\ orders = << >> /\ orderItems = << >>
    /\ \E i \in 1..Len(carts) : Len(carts[i].items) = 2

(***************************************************************************)
(* Properties of payment intents and of the webhook.                       *)
(***************************************************************************)
\* C6: when a call of getOrCreatePaymentIntent starts while another call for
\* the same order is running in the same process, the later call makes no
\* provider call of its own but awaits the running attempt; the two make at
\* most one create between them and get the same result; and when the order
\* had no stored intent and the attempt succeeds, exactly one intent was
\* created and both callers hold its client secret.
C6_ConcurrentCallsShareOneCreate ==
  \A a, b \in Calls :
    a \in calls[b].overlap =>
      /\ calls[b].role = "joiner"
      /\ calls[b].pc \in {"await", "done"}
      /\ calls[b].intent = 0
      /\ (calls[a].pc = "done" /\ calls[b].pc = "done") => calls[a].result = calls[b].result
      /\ (/\ calls[a].role = "owner" /\ calls[a].pc = "done" /\ calls[a].result # Thrown
          /\ calls[a].stored.kind # "pi")
         => /\ calls[a].intent # 0
            /\ calls[b].result = calls[a].intent
            /\ Cardinality({d \in Calls : calls[d].awaits = a \/ d = a}) >= 2
            /\ \A d \in Calls : calls[d].awaits = a => calls[d].intent = 0

\* Two overlapping calls for an order without a stored intent have both
\* returned the secret of the one intent created.
C6_Witness ==
  \E a, b \in Calls :
    /\ a \in calls[b].overlap
    /\ calls[a].role = "owner" /\ calls[a].stored = NoId
    /\ calls[a].pc = "done" /\ calls[b].pc = "done"
    /\ calls[a].intent = 1 /\ calls[b].result = 1 /\ calls[a].result = 1
    /\ Len(intents) = 1

\* C7: a call that is not awaiting a running attempt never returns the client
\* secret of an intent whose amount differs from round(expectedTotal x 100):
\* after an earlier call created such an intent, the secret returned is that
\* of an intent for the expected total, also while the earlier result is
\* still held in the registry.
C7_StaleSecretNeverReturned ==
  \A b \in Calls :
    (calls[b].pc = "done" /\ calls[b].role \in {"owner", "cached"} /\ calls[b].result # Thrown)
      => intents[calls[b].result].amount = MinorUnits(calls[b].total)

\* An intent the provider holds that is valid for order o: it names the
\* order, its amount is the order's total in minor units, and it can still
\* be confirmed.
ValidIntents(o) ==
  {i \in 1..Len(intents) : /\ intents[i].orderId = o
                           /\ intents[i].amount = MinorUnits(orders[o].totalPrice)
                           /\ intents[i].status \in ReusableStatuses}

\* C8: in every reachable state an unpaid order has at most one valid intent.
C8_AtMostOneValidIntent ==
  \A o \in 1..Len(orders) : ~orders[o].isPaid => Cardinality(ValidIntents(o)) <= 1

\* A webhook request is answered in this step.
Answered == now' = now + 1

C10_UnverifiedAlways400 ==
  [][(Answered /\ hook'.signature # WebhookSecret)
     => (hook'.status = 400 /\ ~hook'.called /\ orders' = orders)]_vars

\* C10, amended: a request whose signature is missing or fails verification
\* is answered 429 when the limiter refuses it, else 500 when the server has
\* no webhook secret, else 400; in each case it changes no order and does
\* not reach updateOrderToPaid.
C10_UnverifiedRejected ==
  [][(Answered /\ hook'.signature # WebhookSecret)
     => /\ hook'.status = (IF hook'.limited THEN 429
                           ELSE IF hook'.secret = Null THEN 500 ELSE 400)
        /\ ~hook'.called
        /\ orders' = orders]_vars

\* A forged charge.succeeded naming an unpaid order was answered 400.
C10_Witness ==
  /\ hook.signature = ForgedSignature /\ hook.type = "charge.succeeded"
  /\ hook.status = 400 /\ ~hook.called
  /\ ~orders[hook.orderId].isPaid

\* C11: once an order is paid it stays paid, and its paidAt and paymentResult
\* keep the values recorded at payment under every later step.
C11_PaidIsTerminal ==
  [][\A o \in 1..Len(orders) :
       orders[o].isPaid =>
         /\ orders'[o].isPaid
         /\ orders'[o].paidAt = orders[o].paidAt
         /\ orders'[o].paymentResult = orders[o].paymentResult]_vars

(***************************************************************************)
(* Properties of single cart calls.                                        *)
(***************************************************************************)
\* An item list without its line k.
RemoveAt(items, k) == SubSeq(items, 1, k - 1) \o SubSeq(items, k + 1, Len(items))

\* `after` is `before` with one unit of the product removed: its line is gone
\* when it held one unit, else it holds one unit less; every other line is
\* where and what it was.
OneUnitRemoved(before, after, productId) ==
  \E k \in 1..Len(before) :
    /\ before[k].productId = productId
    /\ \A j \in 1..(k - 1) : before[j].productId # productId
    /\ after = IF before[k].qty = 1 THEN RemoveAt(before, k)
               ELSE [before EXCEPT ![k] = [productId |-> productId, price |-> before[k].price,
                                           qty |-> before[k].qty - 1]]

\* A removeItemfromCart call p writes and returns success in this step.
RemoveSucceeds(p) ==
  req[p].op = "remove" /\ req[p].pc = "write" /\ req'[p].result = "success"

\* C12 as stated, the cart before the call being the stored cart the write
\* replaces: a successful removeItemfromCart changes exactly the line of its
\* product in the stored item list.
C12_RemoveAgainstStoredCart ==
  [][\A p \in Reqs :
       RemoveSucceeds(p) =>
         OneUnitRemoved(carts[req[p].cartId].items, carts'[req[p].cartId].items,
                        req[p].item.productId)]_vars

\* C12, amended: the item list a successful removeItemfromCart stores is the
\* list the call read with one unit of the product removed (the line gone
\* when it held one unit, else one unit less), every other line of the list
\* read keeping its position, quantity and price.
C12_RemoveChangesOnlyItsLine ==
  [][\A p \in Reqs :
       RemoveSucceeds(p) =>
         OneUnitRemoved(req[p].read, carts'[req[p].cartId].items, req[p].item.productId)]_vars

\* A remove of the first of two lines, a line of one unit, has returned
\* success and the cart holds the other line alone.
C12_Witness ==
  \E p \in Reqs :
    /\ req[p].op = "remove" /\ req[p].pc = "done" /\ req[p].result = "success"
    /\ req[p].path = "remove" /\ req[p].item.qty = 1
    /\ LET items == carts[req[p].cartId].items
       IN  /\ Len(items) = 1
           /\ items[1].productId # req[p].item.productId
           /\ items[1].qty = 2

\* The messages of the failures a cart action returns.
FailureMessages ==
  {"Cart Session not found", "Product not found", "Not enough stock", "Cart not found",
   "Item not found", "database error"}

\* C13: a cart action that does not succeed returns a failure with a message
\* (no error leaves the action) and the step in which it fails leaves every
\* stored cart as it was.
C13_FailuresReturnAndKeepCarts ==
  [][\A p \in Reqs :
       ( /\ req[p].pc \in {"idle", "write"}
         /\ req'[p].op \in {"add", "remove"} /\ req'[p].pc = "done"
         /\ req'[p].result # "success" )
       => /\ req'[p].result \in FailureMessages
          /\ carts' = carts]_vars

\* An add refused for lack of stock and a remove of an absent item have both
\* returned their failure while a cart with a line is stored.
C13_Witness ==
  /\ \E p \in Reqs : req[p].op = "add" /\ req[p].pc = "done" /\ req[p].result = "Not enough stock"
  /\ \E p \in Reqs : req[p].op = "remove" /\ req[p].pc = "done" /\ req[p].result = "Item not found"
  /\ \E i \in 1..Len(carts) : carts[i].items # << >>

(***************************************************************************)
(* Properties of createOrder's preconditions and of the order it creates.  *)
(***************************************************************************)
\* A createOrder call p of a signed-in user passes from its reads to its
\* checks in this step.
OrderChecked(p) == req[p].op = "idle" /\ req'[p].op = "order" /\ session.userId # Null

\* C14: createOrder looks at the cart, then the address, then the payment
\* method and stops at the first that fails: no or an empty cart gives /cart;
\* else no address gives /shipping-address; else no payment method gives
\* /payment-method; else it goes on to the transaction.  In the three failing
\* cases no order or order item is created and the cart is unchanged.
C14_PreconditionsInOrder ==
  [][\A p \in Reqs :
       OrderChecked(p) =>
         LET id == FindFirstCart(session)
             noCart == id = 0 \/ Len(carts[id].items) = 0
             out == req'[p]
         IN  /\ noCart => (out.pc = "done" /\ out.result = "/cart")
             /\ (~noCart /\ user.address = Null)
                  => (out.pc = "done" /\ out.result = "/shipping-address")
             /\ (~noCart /\ user.address # Null /\ user.paymentMethod = Null)
                  => (out.pc = "done" /\ out.result = "/payment-method")
             /\ (~noCart /\ user.address # Null /\ user.paymentMethod # Null)
                  => out.pc = "tx"
             /\ out.pc = "done"
                  => (orders' = orders /\ orderItems' = orderItems /\ carts' = carts)]_vars

\* createOrder has returned /cart for a user who has neither a cart line nor
\* an address nor a payment method.
C14_Witness ==
  \E p \in Reqs :
    /\ req[p].op = "order" /\ req[p].pc = "done" /\ req[p].result = "/cart"
    /\ user.address = Null /\ user.paymentMethod = Null
    /\ orders = << >> /\ orderItems = << >>

\* The four totals of a cart or order row.
FourTotals(row) == [f \in DOMAIN NoTotals |-> row[f]]

\* C15: when createOrder creates an order, the order's four totals are the
\* four totals the cart row holds at that moment, the order has one order
\* item per line of that cart with the line's productId, price and quantity,
\* and afterwards the cart row is still there with an empty item list.
C15_OrderSnapshotsCart ==
  [][\A p \in Reqs :
       (req[p].op = "order" /\ req[p].pc = "tx" /\ req'[p].result = "Order created") =>
         LET cart == carts[req[p].cartId]
             new == Len(orders')
             lines == {k \in 1..Len(orderItems') : orderItems'[k].orderId = new}
         IN  /\ FourTotals(orders'[new]) = FourTotals(cart)
             /\ Cardinality(lines) = Len(cart.items)
             /\ \A k \in 1..Len(cart.items) :
                  \E j \in lines :
                    /\ orderItems'[j].productId = cart.items[k].productId
                    /\ orderItems'[j].price = cart.items[k].price
                    /\ orderItems'[j].qty = cart.items[k].qty
             /\ Len(carts') = Len(carts)
             /\ carts'[req[p].cartId].items = << >>]_vars

(***************************************************************************)
(* Properties of the sign-in cart merge.                                   *)
(***************************************************************************)
\* The merge of a sign-in that found a session cart ends in this step, and
\* not with a database fault.
MergeEnds ==
  login.pc = "rebind" /\ login'.pc = "done" /\ login'.result # "database error"

\* C16: after the merge has run for a user and a sessionCartId for which a
\* cart S exists, the user owns exactly one cart, it is S with the item list
\* and totals it had, and no other cart is the user's.
C16_MergeLeavesSessionCart ==
  [][MergeEnds =>
       /\ CartsOf(carts', UserId) = {login.cartId}
       /\ IsStored(carts'[login.cartId])
       /\ carts'[login.cartId].items = carts[login.cartId].items
       /\ FourTotals(carts'[login.cartId]) = FourTotals(carts[login.cartId])]_vars

\* C17: a sign-in whose cart merge fails still completes: the jwt callback
\* returns the token whatever the session-cart lookup, the deletion of the
\* user's carts and the rebinding of the session cart did.
C17_MergeFailureDoesNotBlockSignIn ==
  [][(login.pc # "done" /\ login'.pc = "done") => login'.result = "token"]_vars

(***************************************************************************)
(* Properties of provider errors.                                          *)
(***************************************************************************)
\* C18: a call of getOrCreatePaymentIntent one of whose provider calls threw
\* (retrieving the stored intent or creating a new one) ends with the error:
\* it never returns a client secret.
C18_ProviderErrorPropagates ==
  \A c \in Calls :
    (calls[c].pc = "done" /\ calls[c].providerError) => calls[c].result = Thrown

\* The successful checks of one identifier, oldest first.
Grants(type, ip) ==
  SelectSeq(checks, LAMBDA c : c.type = type /\ c.ip = ip /\ c.success)

\* An interval starts with the first success after the previous interval
\* elapsed and lasts config.interval; `used` successes fell in the current one.
RECURSIVE IntervalsRespected(_, _, _, _)
IntervalsRespected(grants, start, used, config) ==
  IF grants = << >> THEN TRUE
  ELSE LET at == Head(grants).at
           elapsed == used = 0 \/ at > start + config.interval
           n == IF elapsed THEN 1 ELSE used + 1
       IN /\ n <= config.maxRequests
          /\ IntervalsRespected(Tail(grants), IF elapsed THEN at ELSE start, n, config)

\* C19: for every identifier and endpoint type, checkRateLimit reports
\* success at most maxRequests times within one interval, with REDIS_URL
\* and without.
C19_AtMostMaxRequestsPerInterval ==
  \A type \in Types, ip \in Ips :
    IntervalsRespected(Grants(type, ip), 0, 0, RateLimitConfig[type])

\* An addItemToCart call p writes and returns success in this step.
AddSucceeds(p) ==
  req[p].op = "add" /\ req[p].pc = "write" /\ req'[p].result = "success"

\* The step adds one row to the Cart table, holding the item alone and owned
\* by the identity; every other row is what it was.
CartCreated(ident, item) ==
  /\ Len(carts') = Len(carts) + 1
  /\ \A i \in 1..Len(carts) : carts'[i] = carts[i]
  /\ carts'[Len(carts')].items = <<item>>
  /\ carts'[Len(carts')].userId = ident.userId
  /\ carts'[Len(carts')].sessionCartId = ident.sessionCartId

\* `after` is `before` with the quantity of the product's line one higher and
\* nothing else changed.
LineIncremented(before, after, productId) ==
  \E k \in 1..Len(before) :
    /\ before[k].productId = productId
    /\ after = [before EXCEPT ![k] = [productId |-> productId, price |-> before[k].price,
                                      qty |-> before[k].qty + 1]]

\* `after` is `before` followed by the item as a new last line.
LineAppended(before, after, item) ==
  /\ Len(after) = Len(before) + 1
  /\ \A j \in 1..Len(before) : after[j] = before[j]
  /\ after[Len(after)] = item

\* The effect the claim names for an add, given the cart that exists for the
\* identity (id 0: none) and its item list `before`.
AddEffect(id, before, ident, item) ==
  IF id = 0 THEN CartCreated(ident, item)
  ELSE /\ Len(carts') = Len(carts)
       /\ IF \E k \in 1..Len(before) : before[k].productId = item.productId
          THEN LineIncremented(before, carts'[id].items, item.productId)
          ELSE LineAppended(before, carts'[id].items, item)

\* C20 as stated, the cart of the identity being the stored cart when the
\* call writes: a successful addItemToCart creates the cart when the identity
\* has none, increments the product's line by 1 when the cart has one, and
\* appends the item otherwise.
C20_AddAgainstStoredCart ==
  [][\A p \in Reqs :
       AddSucceeds(p) =>
         LET id == FindFirstCart(req[p].ident)
         IN  AddEffect(id, IF id = 0 THEN << >> ELSE carts[id].items,
                       req[p].ident, req[p].item)]_vars

\* C20, amended: a successful addItemToCart has exactly one of three effects,
\* decided by the cart the call read: none read, a cart is created holding
\* [item] and owned by the identity's userId and sessionCartId; a line for
\* the product read, the list stored is the list read with that line's
\* quantity one higher; otherwise it is the list read with item appended.
C20_AddHasOneOfThreeEffects ==
  [][\A p \in Reqs :
       AddSucceeds(p) =>
         AddEffect(req[p].cartId, req[p].read, req[p].ident, req[p].item)]_vars

\* An add has returned success after incrementing the second of two lines.
C20_Witness ==
  \E p \in Reqs :
    /\ req[p].op = "add" /\ req[p].pc = "done" /\ req[p].result = "success"
    /\ req[p].path = "increment"
    /\ LET items == carts[req[p].cartId].items
       IN  /\ Len(items) = 2
           /\ items[2].productId = req[p].item.productId
           /\ items[2].qty = 2

\* No two lines of an item list share a productId and every line holds a
\* positive quantity.
WellFormedItems(items) ==
  /\ \A j, k \in 1..Len(items) : j # k => items[j].productId # items[k].productId
  /\ \A j \in 1..Len(items) : items[j].qty \in Nat /\ items[j].qty >= 1

\* C21: in every cart reachable by addItemToCart and removeItemfromCart calls,
\* productId is unique within the item list and every line's quantity is a
\* positive integer.
C21_LinesUniqueAndPositive ==
  \A i \in 1..Len(carts) : WellFormedItems(carts[i].items)

\* A remove has returned success after decrementing the first of two lines,
\* which is left with one unit.
C21_Witness ==
  \E p \in Reqs :
    /\ req[p].op = "remove" /\ req[p].pc = "done" /\ req[p].result = "success"
    /\ LET items == carts[req[p].cartId].items
       IN  /\ Len(items) = 2
           /\ items[1].productId = req[p].item.productId
           /\ items[1].qty = 1

\* Call c leaves the retrieval of its order's stored intent in this step;
\* `Retrieved`: the provider returned the intent (no error was thrown).
LeavesRetrieve(c) == calls[c].pc = "retrieve" /\ calls'[c].pc # "retrieve"
Retrieved(c) == calls'[c].providerError = calls[c].providerError

\* The retrieved intent is the order's as the claim states it: the amount is
\* the expected total in cents, the currency usd, the metadata names the
\* order, the status awaits an action of the customer.
ValidForOrder(pi, orderId, total) ==
  /\ pi.amount = total
  /\ pi.currency = "usd"
  /\ pi.orderId = orderId
  /\ pi.status \in {"requires_payment_method", "requires_confirmation", "requires_action"}

\* C22: the reconciliation of an order that stores an intent id returns the
\* stored intent's client secret, creating nothing, exactly when the intent
\* retrieved has the expected amount, currency usd, the order's id in its
\* metadata and a status awaiting action; in every other case it goes on to
\* create a new intent.
C22_ReuseIffValid ==
  [][\A c \in Calls :
       LeavesRetrieve(c) =>
         LET k == calls[c]
             valid == Retrieved(c) /\ ValidForOrder(intents[k.stored.n], k.orderId, k.total)
         IN  /\ valid <=> (calls'[c].pc = "done" /\ calls'[c].result = k.stored.n)
             /\ valid => calls'[c].intent = 0 /\ intents' = intents
             /\ ~valid => calls'[c].pc = "create"]_vars

\* A reconciliation has returned the secret of the intent the order stored,
\* and created none.
C22_Witness ==
  \E c \in Calls :
    /\ calls[c].pc = "done" /\ calls[c].role = "owner"
    /\ calls[c].stored.kind = "pi"
    /\ calls[c].result = calls[c].stored.n /\ calls[c].intent = 0

\* The attempts of process n for order o that are running: the calls that
\* started one (the registry had no entry) and have not settled.
AttemptsInFlight(n, o) ==
  {c \in Calls : /\ calls[c].role = "owner" /\ calls[c].proc = n /\ calls[c].orderId = o
                 /\ calls[c].pc \in {"findOrder", "retrieve", "create", "update"}}

\* The timers of process n pending for order o.
GraceTimers(n, o) == {t \in timers : t.proc = n /\ t.orderId = o}

\* paymentIntentCache holds an entry for an order exactly while an attempt is
\* in flight (the entry is that attempt's promise) or has succeeded and its
\* grace timer is pending (the entry is its secret, the timer is its own: the
\* timer that fires removes the entry of the attempt that armed it); a failed
\* attempt has no entry when its callers have the error.
RegistryFollowsAttempts ==
  /\ \A n \in Procs, o \in 1..Len(orders) :
       LET e == cache[n][o]
       IN  /\ e.state = "pending" <=> AttemptsInFlight(n, o) # {}
           /\ e.state = "pending" => AttemptsInFlight(n, o) = {e.owner}
           /\ e.state = "resolved" <=> GraceTimers(n, o) # {}
           /\ e.state = "resolved" =>
                /\ GraceTimers(n, o) = {[proc |-> n, orderId |-> o, owner |-> e.owner]}
                /\ calls[e.owner].pc = "done" /\ calls[e.owner].result = e.secret
  /\ \A c \in Calls :
       (calls[c].pc = "done" /\ calls[c].result = Thrown) =>
         cache[calls[c].proc][calls[c].orderId].owner # IF calls[c].role = "owner" THEN c
                                                         ELSE calls[c].awaits

\* C23: paymentIntentCache holds an entry for an order exactly while an
\* attempt is in flight or has succeeded less than the grace window ago: a
\* failed attempt's entry is gone before its caller has the error, a
\* successful attempt's entry is removed when its timer fires, which it
\* eventually does, and a timer never removes the entry of a later attempt.
C23_EntryLifetime ==
  /\ []RegistryFollowsAttempts
  /\ \A n \in Procs, o \in 1..MaxOrders :
       (cache[n][o].state = "resolved") ~> (cache[n][o].state = "none")

\* A first attempt succeeded and its timer has fired, a second attempt failed
\* and left no entry, and a third attempt for the same order is in flight on
\* the same process.
C23_Witness ==
  \E a, b, c \in Calls :
    /\ calls[a].role = "owner" /\ calls[a].pc = "done" /\ calls[a].result # Thrown
    /\ calls[b].role = "owner" /\ calls[b].pc = "done" /\ calls[b].result = Thrown
    /\ calls[c].role = "owner" /\ calls[c].pc = "findOrder"
    /\ calls[a].proc = calls[c].proc /\ calls[b].proc = calls[c].proc
    /\ cache[calls[c].proc][calls[c].orderId] = PendingEntry(c)
    /\ timers = {}

\* Call c, having created an intent, ends in this step.
CreatorEnds(c) == calls[c].pc = "update" /\ calls'[c].pc = "done"

\* C24: when getOrCreatePaymentIntent returns the client secret of the intent
\* it has just created, the order's paymentResult stores that intent's id
\* with status pending and pricePaid 0; when the order update fails the call
\* throws and returns no secret.
C24_StoredBeforeSecretReturned ==
  [][\A c \in Calls :
       CreatorEnds(c) =>
         LET k == calls[c]
             stored == orders'[k.orderId].paymentResult
         IN  IF calls'[c].result = Thrown
             THEN orders' = orders
             ELSE /\ calls'[c].result = k.intent
                  /\ stored.id = IntentId(k.intent)
                  /\ stored.status = "pending"
                  /\ stored.pricePaid = 0]_vars

\* A call has returned the secret of the second intent, which it created
\* because the stored one was stale, and the order stores that intent as
\* pending.
C24_Witness ==
  \E c \in Calls :
    /\ calls[c].pc = "done" /\ calls[c].role = "owner"
    /\ calls[c].stored.kind = "pi" /\ calls[c].intent = 2
    /\ calls[c].result = 2
    /\ orders[calls[c].orderId].paymentResult = PendingResult(2)

\* C25: a verified webhook event whose type is not charge.succeeded is
\* answered 200, does not reach updateOrderToPaid and leaves every order
\* unchanged.
C25_OtherEventsAcknowledged ==
  [][(/\ Answered
      /\ ~hook'.limited /\ hook'.secret # Null
      /\ hook'.signature # Null /\ hook'.signature = hook'.secret
      /\ hook'.type # "charge.succeeded")
     => (hook'.status = 200 /\ ~hook'.called /\ orders' = orders)]_vars

\* A verified payment_intent.succeeded naming an unpaid order was answered
\* 200 and the order is still unpaid.
C25_Witness ==
  /\ hook.signature = WebhookSecret /\ hook.secret = WebhookSecret /\ ~hook.limited
  /\ hook.type = "payment_intent.succeeded"
  /\ hook.status = 200 /\ ~hook.called
  /\ ~orders[hook.orderId].isPaid

\* C26: in every reachable state, the states after createOrder emptied a cart
\* and after removeItemfromCart removed the last line included, each cart's
\* stored itemsPrice, shippingPrice, taxPrice and totalPrice are the pricing
\* formula's recomputation from its item list (for the empty list 0.00,
\* 10.00, 0.00, 10.00).
C26_TotalsMatchItemsAfterCheckout ==
  \A i \in 1..Len(carts) :
    IsStored(carts[i]) => FourTotals(carts[i]) = TotalsOf(carts[i].items)

\* C27: outside a running sign-in merge a cart is bound to one identity: a
\* cart whose userId is set is not also the cart that its sessionCartId binds
\* to the browser's anonymous session.
C27_OneIdentityPerCart ==
  login.pc = "idle" =>
    \A i \in 1..Len(carts) :
      (IsStored(carts[i]) /\ carts[i].userId # Null) =>
        ~(session.userId = Null /\ FindFirstCart(session) = i)

\* The order items of order o, in insertion order.
LinesOfOrder(o) == SelectSeq(orderItems, LAMBDA row : row.orderId = o)

\* createOrder call p commits its transaction in this step.
OrderCommits(p) ==
  req[p].op = "order" /\ req[p].pc = "tx" /\ req'[p].result = "Order created"

\* C28: of two createOrder calls that overlap on one cart only one creates
\* an order from its contents: a call never commits an order when the cart
\* has been emptied since it read it and an order with the same lines exists.
C28_OneOrderPerCartContents ==
  [][\A p \in Reqs :
       OrderCommits(p) =>
         ~(/\ carts[req[p].cartId].items = << >>
           /\ \E o \in 1..Len(orders) :
                /\ orders[o].userId = req[p].ident.userId
                /\ LinesOfOrder(o) = WithOrderId(req[p].items, o))]_vars

\* C29: after addItemToCart calls that overlapped for an identity without a
\* cart, at most one cart row exists for a sessionCartId, and at most one for
\* a userId.
C29_OneCartPerIdentity ==
  \A i, j \in 1..Len(carts) :
    (i # j /\ IsStored(carts[i]) /\ IsStored(carts[j])) =>
      /\ carts[i].sessionCartId # carts[j].sessionCartId
      /\ carts[i].userId # Null => carts[i].userId # carts[j].userId

\* C30: when the cart of the sessionCartId cookie is already owned by the
\* user who signs in, the merge leaves it in existence with its items, totals
\* and owner, and the jwt callback does not end with the error of updating a
\* cart that is gone.
C30_OwnCartSurvivesSignIn ==
  [][/\ (/\ login.pc = "delete"
         /\ IsStored(carts[login.cartId])
         /\ carts[login.cartId].userId = UserId)
        => carts'[login.cartId] = carts[login.cartId]
     /\ (login.pc = "rebind" /\ login'.pc = "done")
        => login'.result # "record not found"]_vars

====
